---- MODULE Spec2Model ----
(***************************************************************************)
(* Model of the galadriel agent runtime (src/galadriel_agent/agent.py):    *)
(* the clients' producer tasks put Messages into one asyncio.Queue and     *)
(* GaladrielAgent.run takes them out one at a time and awaits run_request  *)
(* for each: add conversation history, user_agent.run, generate proof,     *)
(* publish proof, post_output on every client.                             *)
(*                                                                         *)
(* The program runs on one asyncio event loop: tasks interleave only where *)
(* a coroutine suspends.  The dispatch loop suspends in queue.get(), in    *)
(* user_agent.run() and in client.post_output(); the history and proof     *)
(* collaborators are plain synchronous calls.                              *)
(*                                                                         *)
(* Two parts stand beside the runtime, each under a specification of its   *)
(* own: the state export / restore methods of GaladrielAgent (StateSpec)   *)
(* and the payment validation of                                           *)
(* src/galadriel/domain/validate_solana_payment.py (PaySpec).              *)
(* NoClientsSpec is run_request on an agent that has no clients.           *)
(* Further parts, one specification each: the Discord client (DiscordSpec),*)
(* the deploy, wallet and init commands of src/galadriel/cli.py            *)
(* (DeploySpec, WalletSpec, NameSpec) and the Jupiter swap tool (SwapSpec).*)
(***************************************************************************)
EXTENDS Integers, Sequences, FiniteSets

\* ------------------------------------------------------------- bounds
\* number of clients handed to GaladrielAgent (each is an input and an output port)
NumPorts == 2
\* number of messages the clients' producer tasks put, all together, before
\* they go quiet
MaxMsgs == 4

VARIABLES
    shortTermMemory, \* self.short_term_memory is configured (truthy)
    queue,           \* client_input_queue: the asyncio.Queue's items, oldest first
    nput,            \* per client: how many messages its start() task has put
    pc,              \* where GaladrielAgent.run / run_request stands
    request,         \* the local `request` of run / run_request
    response,        \* the local `response` of run_request
    proof,           \* the local `proof` of run_request
    sendIdx,         \* position of `for client in self.clients` (1-based)
    raised,          \* which call of run_request raised, "none" if none did
    handed,          \* history: the messages passed to run_request, in order
    inflight,        \* history: messages whose run_request frame is live
    calls,           \* history, per current message: invocations of each collaborator
    sent,            \* history, per current message: triples given to each client's post_output
    ports,           \* per client: the state of its start() task
    cancelled,       \* history: the clients whose start() task had cancel() called on it
    shutdown,        \* the task running run() was cancelled (the process was told to stop)
    loads,           \* history: how many times load_state was awaited
    agentClients,    \* self.clients, the list run_request iterates over
    \* -- state export / restore (agent.py, export_state .. restore_state)
    agentState,      \* the agent's in-memory state, 0 when freshly constructed
    store,           \* what the checkpoint store (s3_client) holds
    loaded,          \* history: the snapshots the body of load_state was run with
    ckpt,            \* history: the last state operation and how it ended
    nops,            \* history: how many state operations were made
    \* -- payment validation (galadriel/domain/validate_solana_payment.py)
    existing_payments, \* the caller's set of signatures already used
    accepted,        \* history: the signatures of the calls that returned, in order
    pay,             \* history: the last call of execute, its inputs and how it ended
    npay,            \* history: how many calls of execute were made
    \* -- Discord client (galadriel_agent/clients/discord_bot.py)
    message_queue,   \* self.message_queue: the items put and not yet taken
    gateway,         \* the guild's messages Discord has yet to hand to on_message
    nposted,         \* how many messages the guild's members have posted
    seen,            \* history: the messages on_message was called with, and what it did
    \* -- CLI (galadriel/cli.py)
    deploy,          \* the run of `galadriel agent deploy`: where it stands, its steps so far
    ndeploys,        \* how many times the deploy command was run
    world,           \* what the runs have brought about: images built and pushed, agents deployed
    \* -- Jupiter swap tool (galadriel/tools/web3/jupiter.py)
    swapCall,        \* the last call of SwapTokenTool.forward and the call of swap it made
    \* -- CLI: wallet (galadriel/cli.py)
    files,           \* per path: the key the file holds, 0 when there is no such file
    agentsEnv,       \* SOLANA_KEY_PATH in .agents.env, "" when not set
    walletCall,      \* history: the last call of _create_solana_wallet
    \* -- CLI: init (galadriel/cli.py)
    naming           \* the run of `galadriel agent init`: its prompts and what it created

\* the agent runtime's part of the state
agentVars == <<shortTermMemory, queue, nput, pc, request, response, proof, sendIdx,
               raised, handed, inflight, calls, sent, ports, cancelled, shutdown, loads,
               agentClients>>

\* the state export / restore part
stateVars == <<agentState, store, loaded, ckpt, nops>>

\* the payment validation part
payVars == <<existing_payments, accepted, pay, npay>>

\* the Discord client part
discordVars == <<message_queue, gateway, nposted, seen>>

\* the parts beside the agent, its state methods and the payment validation
\* the deploy command part
deployVars == <<deploy, ndeploys, world>>

\* the swap tool part
swapVars == <<swapCall>>

\* the wallet part
walletVars == <<files, agentsEnv, walletCall>>

\* the init command part
nameVars == <<naming>>

extVars == <<discordVars, deployVars, swapVars, walletVars, nameVars>>

vars == <<agentVars, stateVars, payVars, extVars>>

\* ------------------------------------------------------------- values
\* self.clients, in list order
clients == [i \in 1..NumPorts |-> i]

Ports == 1..NumPorts

\* the n-th Message put by client p (seq identifies it; enriched marks the
\* Message returned by add_conversation_history)
Msg(p, n) == [port |-> p, seq |-> n, enriched |-> FALSE]

NoMsg == [port |-> 0, seq |-> 0, enriched |-> FALSE]

\* response before user_agent.run has returned
NoResponse == [kind |-> "none", reply_to |-> NoMsg]

\* a falsy result of user_agent.run (None)
Absent == [kind |-> "absent", reply_to |-> NoMsg]

NoProof == [req |-> NoMsg, resp |-> NoResponse]

\* the result of _add_conversation_history thrown away instead of assigned
AddHistoryDiscarded(m) == m

\* add_conversation_history.execute(request, short_term_memory): a new Message
AddHistory(m) == [m EXCEPT !.enriched = TRUE]

\* the Message user_agent.run returns for a request
Reply(m) == [kind |-> "reply", reply_to |-> m]

\* generate_proof.execute(request, response)
Proof(req, resp) == [req |-> req, resp |-> resp]

NoCalls == [history |-> 0, user |-> 0, generate |-> 0, publish |-> 0]

NoneSent == [p \in Ports |-> <<>>]

\* ------------------------------------------------------------- helpers
\* a LIFO queue instead of asyncio.Queue
QueueGetLifo(q) == [item |-> q[Len(q)], rest |-> SubSeq(q, 1, Len(q) - 1)]

\* asyncio.Queue.get: removes and returns the oldest item
QueueGet(q) == [item |-> Head(q), rest |-> Tail(q)]

\* post_output started as tasks instead of awaited: the loop takes the next
\* message while deliveries are pending
CanGetDuringDelivery == pc \in {"WAITING", "DELIVERING"}

\* run_request started as a task instead of awaited: the loop takes the next
\* message while user_agent.run is still suspended
CanGetNotAwaited == pc \in {"WAITING", "EXECUTING"}

\* `await self.run_request(request)` has returned (or never ran): the loop is
\* at `await client_input_queue.get()`
CanGet == pc = "WAITING"

\* a failed call tried again
OnRaiseRetry(stage) ==
    CASE stage = "history" -> "ENRICHING"
      [] stage = "user" -> "EXECUTING"
      [] stage = "generate" -> "PROVING"
      [] stage = "publish" -> "PUBLISHING"
      [] OTHER -> "DELIVERING"

\* an exception swallowed in run_request, which then carries on
OnRaiseSwallowed(stage) == IF stage = "user" THEN "PROVING" ELSE "CRASHED"

\* run_request and run have no try/except: an exception of any call leaves
\* both coroutines, and the `while True` loop with them
OnRaiseProofIgnored(stage) ==
    IF stage \in {"generate", "publish"} THEN "DELIVERING" ELSE "CRASHED"

OnRaise(stage) == "CRASHED"

\* _publish_proof called before _generate_proof
AfterExecutePublishFirst(resp) == IF resp # Absent THEN "PUBLISHING" ELSE "WAITING"

\* `if response:` dropped
AfterExecuteUnchecked(resp) == "PROVING"

\* `if response:` after user_agent.run
AfterExecute(resp) == IF resp # Absent THEN "PROVING" ELSE "WAITING"

\* `if self.short_term_memory:` dropped
HistoryConfiguredAlways == TRUE

\* `if self.short_term_memory:` in _add_conversation_history
HistoryConfigured == shortTermMemory

\* the dispatch loop's coroutine is suspended at an await, or has ended, so
\* the event loop can run a producer task that is still alive.  (Once run()
\* has ended, asyncio.run cancels the producer tasks and keeps the event loop
\* going until each of them has finished.)
ProducersCanRun == pc \in {"WAITING", "EXECUTING", "DELIVERING", "CRASHED", "STOPPED"}

\* the dispatch loop's coroutine is suspended at an await: the event loop can
\* deliver a signal or run another task
LoopSuspended == pc \in {"WAITING", "EXECUTING", "DELIVERING"}

\* the while loop re-entered above load_state
LoopHeadReloads == "START"

\* where run() stands when run_request has returned: at the head of
\* `while True`, which is below load_state
LoopHead == "WAITING"

\* where run_request stands after _publish_proof returned: in the body of
\* `for client in self.clients` when there is a client, else back in run()
AfterPublishAlwaysDelivers(cl) == "DELIVERING"

AfterPublish(cl) == IF Len(cl) = 0 THEN LoopHead ELSE "DELIVERING"

\* the exception of a client's start() task awaited by run()
OnProducerRaisePropagates(cur) == "CRASHED"

\* a client's start() task raised: the task object made by create_task is
\* not kept nor awaited, so run() does not see the exception
OnProducerRaise(cur) == cur

\* CancelledError caught and the loop carried on
OnCancelSwallowed(cur) == cur

\* the task running run() is cancelled: CancelledError is raised at the await
\* the loop is suspended in, and neither run nor run_request handles it
OnCancel(cur) == "STOPPED"

\* `except asyncio.CancelledError` that does not leave the loop
OnCancelledIgnored == "running"

\* Cron.start: CancelledError, raised in asyncio.sleep, is caught and the
\* loop is left with `break`
OnCancelled == "stopped"

\* run() has ended: asyncio.run returns from run_until_complete
RunEnded(next) == next \in {"CRASHED", "STOPPED"}

\* how many messages the first n clients have put
RECURSIVE PutBy(_)
PutBy(n) == IF n = 0 THEN 0 ELSE nput[clients[n]] + PutBy(n - 1)

\* ------------------------------------------------------------- state export / restore
\* the values the agent's in-memory state takes are 0..MaxState
MaxState == 2
\* number of state operations made
MaxOps == 3

\* None: the result of a coroutine that ends in `pass`, an empty store
NoSnapshot == [kind |-> "none", val |-> 0]

\* an AgentState that holds the in-memory state v
Snapshot(v) == [kind |-> "state", val |-> v]

\* the coroutine object of a call of export_state that was not awaited
PendingExport == [kind |-> "coroutine", val |-> 0]

Snapshots == {NoSnapshot} \cup {Snapshot(v) : v \in 0..MaxState}

\* export_state, awaited: its body is `pass`, it returns None
ExportState(cur) == NoSnapshot

\* load_state, awaited: the in-memory state after its body ran
LoadStateAdopts(cur, snap) == snap.val

LoadStateBody(cur, snap) == cur

\* load_state, awaited: how its body ends
LoadStateRejectsNone(snap) == IF snap.kind = "none" THEN "raised" ELSE "ok"

LoadStateEnds(snap) == "ok"

\* upload_state: `state = self.export_state()`, what upload_file is given
UploadArgument(cur) == PendingExport

\* restore_state: `self.load_state(state)` is a bare call, is the coroutine awaited
RestoreAwaitsLoad == FALSE

\* upload_state / restore_state: how they end when the awaited store call raises
OnStoreRaiseSwallowed == "ok"

OnStoreRaise == "raised"

\* the checkpoint store: what it holds after upload_file(blob) returned
StoreUpload(held, blob) == blob

\* the checkpoint store: what download_file returns, None when nothing is held
StoreDownload(held) == held

\* the record of a state operation: which, how it ended, whether the store
\* call raised, how many store calls it made, the snapshot it handled and
\* the in-memory state before it
StateOp(op, outcome, failed, n, snap, before) ==
    [op |-> op, outcome |-> outcome, storeFailed |-> failed, storeCalls |-> n,
     snap |-> snap, before |-> before]

NoOp == StateOp("none", "ok", FALSE, 0, NoSnapshot, 0)

\* ------------------------------------------------------------- payment validation
\* number of words of a message
MaxTokens == 3
\* number of calls of execute
MaxPays == 3

\* `10**9` lamports in one SOL
LamportsPerSol == 1000000000

Prefix == "https://solscan.io/tx/"

\* the words Signature.from_string accepts
Signatures == {"sigA", "sigB"}

\* a message is a sequence of pieces of text: a plain word, the prefix, a signature
Tokens == {"task", Prefix} \cup Signatures

Messages == UNION {[1..n -> Tokens] : n \in 0..MaxTokens}

\* pricing.cost, in SOL
Costs == {0, 1}

\* what get_transaction answers: whether the transaction exists, whether the
\* pricing wallet is one of its account keys, whether meta.err is set, and
\* post_balance - pre_balance of the wallet
Tx(found, hasWallet, err, delta) ==
    [found |-> found, hasWallet |-> hasWallet, err |-> err, delta |-> delta]

\* no transaction was looked up
NoTx == Tx(FALSE, FALSE, FALSE, 0)

Txs == {Tx(FALSE, FALSE, FALSE, 0)}
       \cup {Tx(TRUE, FALSE, e, 0) : e \in BOOLEAN}
       \cup {Tx(TRUE, TRUE, e, d) : e \in BOOLEAN, d \in {-1, 0, LamportsPerSol}}

\* message.split("https://solscan.io/tx/"): the pieces between the occurrences
RECURSIVE Split(_)
Split(m) ==
    IF m = <<>> THEN << <<>> >>
    ELSE LET rest == Split(Tail(m)) IN
         IF Head(m) = Prefix THEN << <<>> >> \o rest
         ELSE << <<Head(m)>> \o Head(rest) >> \o Tail(rest)

\* the first word of the message that Signature.from_string accepts, <<>> if none
RECURSIVE FindSignature(_)
FindSignature(m) ==
    IF m = <<>> THEN <<>>
    ELSE IF Head(m) \in Signatures THEN <<Head(m)>>
    ELSE FindSignature(Tail(m))

Parsed(kind, task, signature) == [kind |-> kind, task |-> task, signature |-> signature]

\* _extract_transaction_signature: "found" with task and signature, "none"
\* for None, "ValueError" when `task, payment = ...` cannot unpack
ExtractTransactionSignature(m) ==
    IF m = <<>> THEN Parsed("none", <<>>, <<>>)
    ELSE IF \E i \in 1..Len(m) : m[i] = Prefix
    THEN LET parts == Split(m) IN
         IF Len(parts) = 2 THEN Parsed("found", parts[1], parts[2])
         ELSE Parsed("ValueError", <<>>, <<>>)
    ELSE LET sig == FindSignature(m) IN
         IF sig # <<>> THEN Parsed("found", SelectSeq(m, LAMBDA w : w # sig[1]), sig)
         ELSE Parsed("none", <<>>, <<>>)

\* Signature.from_string(tx_signature) returns
IsSignature(sig) == Len(sig) = 1 /\ sig[1] \in Signatures

\* _get_sol_amount_transferred: False, which compares as 0, when there is no
\* such transaction, no pricing wallet in it, or it failed
GetSolAmountTransferred(tx) ==
    IF ~tx.found THEN 0
    ELSE IF ~tx.hasWallet THEN 0
    ELSE IF tx.err THEN 0
    ELSE tx.delta

\* `task_and_payment.signature in existing_payments`
AlreadyUsedNever(sig, existing) == FALSE

AlreadyUsed(sig, existing) == sig \in existing

\* `sol_transferred_lamport < pricing.cost * 10**9`
Underpaid(amount, cost) == amount < cost * LamportsPerSol

\* existing_payments when execute raises for signature sig
RecordedBeforeCheck(existing, sig) == existing \cup {sig}

RecordedOnReject(existing, sig) == existing

\* the record of a call of execute: request.content, pricing.cost, the
\* chain's answer, how the message parsed, the signature found, how the call
\* ended ("pending" while it runs) and existing_payments at its entry
Pay(message, cost, tx, parsed, signature, outcome, before) ==
    [message |-> message, cost |-> cost, tx |-> tx, parsed |-> parsed,
     signature |-> signature, outcome |-> outcome, before |-> before]

NoPay == Pay(<<>>, 0, NoTx, "none", <<>>, "none", {})

\* ------------------------------------------------------------- Discord client
\* number of messages the guild's members post
MaxPosts == 3

\* self.user, the account the bot is connected as
SelfUser == "bot"

\* the other members of the guild
Members == {"alice", "bob"}

\* a discord.Message: its author, the n-th post of a member (0 for a reply of
\* the bot), and for a reply of the bot the post it answers
Post(author, n, re) == [author |-> author, seq |-> n, reply_to |-> re]

\* `message.author == self.user`
IsOwnMessageNever(author) == FALSE

IsOwnMessage(author) == author = SelfUser

\* the item on_message puts: Message(...).to_dict(), which carries the author
ToDict(post) == post

\* the record of one call of on_message
Seen(post, put) == [post |-> post, put |-> put]

\* the client is started and the guild is silent
DiscordIdle ==
    /\ message_queue = <<>>
    /\ gateway = <<>>
    /\ nposted = 0
    /\ seen = <<>>

\* ------------------------------------------------------------- CLI: deploy
\* number of runs of the deploy command
MaxDeploys == 2

\* the calls of deploy that can fail, in the order of the code: the repository
\* is created only when the Docker Hub token request answered 200
Steps == <<"config", "build", "login", "token", "repo", "push", "deploy", "post">>

StepsNoRepo == SelectSeq(Steps, LAMBDA st : st # "repo")

\* a run of the command: the call it is about to make ("ended" when it has
\* returned or raised), the calls made, the call that failed, how the
\* command ended and the agent id it got
Run(at, log, failedAt, outcome, agent_id) ==
    [at |-> at, log |-> log, failedAt |-> failedAt, outcome |-> outcome,
     agent_id |-> agent_id]

NoRun == Run("ended", <<>>, "none", "none", "")

\* subprocess.run(["docker-compose", "build"], check=True)
AfterBuildUnchecked(ok) == "login"

AfterBuild(ok) == IF ok THEN "login" ELSE "ended"

\* the answers of POST {API_BASE_URL}/agents/ and what comes of them: status
\* 200 with an agent id, with an empty one, without the key, another status,
\* or no answer at all (requests raises)
Answers == {"200 id", "200 empty", "200 no key", "500", "raise"}

\* the deploy command is not run
DeployIdle ==
    /\ deploy = NoRun
    /\ ndeploys = 0
    /\ world = [built |-> 0, pushed |-> 0, agents |-> 0]

\* ------------------------------------------------------------- Jupiter swap tool
\* the amounts asked for are 1..MaxAmount
MaxAmount == 3

\* the values of user_address
Users == {"userA", "userB"}

\* the values of token1 and token2: two mint addresses and, as any string may
\* be passed, one that reads as a number
Mints == {"mintSOL", "mintUSDC", "2"}

\* float(x) returns for a string that reads as a number
IsNumber(x) == x = "2"

\* float(x) for such a string
Float(x) == 2

\* the record of a call of forward: its arguments, how far it got ("forward"
\* entered, "swap" called, "ValueError" raised) and the parameters of swap
\* as the call bound them
Forward(phase, user_address, token1, token2, amount, args) ==
    [phase |-> phase, user_address |-> user_address, token1 |-> token1,
     token2 |-> token2, amount |-> amount, swap |-> args]

\* the parameters of swap(wallet, output_mint, input_mint, input_amount, slippage_bps)
SwapArgs(output_mint, input_mint, input_amount, slippage_bps) ==
    [output_mint |-> output_mint, input_mint |-> input_mint,
     input_amount |-> input_amount, slippage_bps |-> slippage_bps]

NoSwapArgs == SwapArgs("", "", 0, 0)

\* forward is not called
SwapIdle == swapCall = Forward("none", "", "", "", 0, NoSwapArgs)

\* ------------------------------------------------------------- CLI: wallet
\* number of calls of _create_solana_wallet
MaxWallets == 3

\* the paths asked for: two under a directory, one bare file name
Paths == {"keys/a.json", "keys/b.json", "c.json"}

\* os.path.dirname(path) is not empty, so that os.makedirs accepts it
HasDirname(path) == path # "c.json"

\* os.path.exists(path)
ExistsNever(fs, path) == FALSE

Exists(fs, path) == fs[path] # 0

\* the record of a call: its number, the path, how it ended, and the files
\* and SOLANA_KEY_PATH at its entry
Wallet(n, path, outcome, filesBefore, envBefore) ==
    [n |-> n, path |-> path, outcome |-> outcome, filesBefore |-> filesBefore,
     envBefore |-> envBefore]

NoFiles == [p \in Paths |-> 0]

\* _create_solana_wallet is not called
WalletIdle ==
    /\ files = NoFiles
    /\ agentsEnv = ""
    /\ walletCall = Wallet(0, "", "none", NoFiles, "")

\* ------------------------------------------------------------- CLI: init
\* number of characters of an input
MaxLen == 4
\* number of prompts of one run of init
MaxPrompts == 2

\* the characters \w matches besides the underscore: \w is Unicode-aware on a
\* str pattern, so letters outside ASCII are among them
Alnum == {"a", "e-acute"}

\* a character \W matches
NonWord == {"-"}

Chars == Alnum \cup {"_"} \cup NonWord

Inputs == UNION {[1..n -> Chars] : n \in 0..MaxLen}

\* re.sub(r"\W+", "_", s): every maximal run of \W characters becomes one "_";
\* inRun says that the character before s was part of such a run
RECURSIVE ReSub(_, _)
ReSub(s, inRun) ==
    IF s = <<>> THEN <<>>
    ELSE IF Head(s) \in NonWord
    THEN (IF inRun THEN <<>> ELSE <<"_">>) \o ReSub(Tail(s), TRUE)
    ELSE <<Head(s)>> \o ReSub(Tail(s), FALSE)

\* s.lstrip("_")
RECURSIVE LStrip(_)
LStrip(s) == IF s # <<>> /\ Head(s) = "_" THEN LStrip(Tail(s)) ELSE s

\* s.rstrip("_")
RECURSIVE RStrip(_)
RStrip(s) ==
    IF s # <<>> /\ s[Len(s)] = "_" THEN RStrip(SubSeq(s, 1, Len(s) - 1)) ELSE s

\* sanitized_name.strip("_")
StripOmitted(s) == s

Strip(s) == RStrip(LStrip(s))

\* _sanitize_agent_name
SanitizeAgentName(user_input) == Strip(ReSub(user_input, FALSE))

\* a run of init: where it stands ("prompt", "created", "none" before it is
\* run), how many prompts it made, the last input, its sanitized name, and
\* the name the template was created for
Naming(at, n, input, name, created) ==
    [at |-> at, n |-> n, input |-> input, name |-> name, created |-> created]

\* init is not run
NameIdle == naming = Naming("none", 0, <<>>, <<>>, <<>>)

\* the parts beside the agent are not used
ExtIdle == DiscordIdle /\ DeployIdle /\ SwapIdle /\ WalletIdle /\ NameIdle

\* the values the state can take
TypeOK ==
    /\ shortTermMemory \in BOOLEAN
    /\ \A i \in 1..Len(queue) : queue[i].port \in Ports /\ queue[i].seq \in 1..MaxMsgs
    /\ nput \in [Ports -> 0..MaxMsgs]
    /\ pc \in {"START", "WAITING", "ENRICHING", "EXECUTING", "PROVING", "PUBLISHING",
              "DELIVERING", "CRASHED", "STOPPED"}
    /\ request.port \in Ports \cup {0}
    /\ response.kind \in {"none", "absent", "reply"}
    /\ sendIdx \in 1..(Len(agentClients) + 1)
    /\ agentClients \in {clients, <<>>}
    /\ raised \in {"none", "history", "user", "generate", "publish", "send"}
    /\ inflight \subseteq {Msg(p, n) : p \in Ports, n \in 1..MaxMsgs}
    /\ \A p \in Ports : Len(sent[p]) <= 1
    /\ ports \in [Ports -> {"running", "failed", "stopped"}]
    /\ cancelled \subseteq Ports
    /\ shutdown \in BOOLEAN
    /\ loads \in 0..1

\* ------------------------------------------------------------- initial state
\* GaladrielAgent constructed with its clients, run() not yet entered
AgentInit ==
    /\ shortTermMemory \in BOOLEAN
    /\ queue = <<>>
    /\ nput = [p \in Ports |-> 0]
    /\ pc = "START"
    /\ request = NoMsg
    /\ response = NoResponse
    /\ proof = NoProof
    /\ sendIdx = 1
    /\ raised = "none"
    /\ handed = <<>>
    /\ inflight = {}
    /\ calls = NoCalls
    /\ sent = NoneSent
    /\ ports = [p \in Ports |-> "running"]
    /\ cancelled = {}
    /\ shutdown = FALSE
    /\ loads = 0
    /\ agentClients = clients

\* no state operation is made
StateIdle ==
    /\ agentState = 0
    /\ store = NoSnapshot
    /\ loaded = <<>>
    /\ ckpt = NoOp
    /\ nops = 0

\* execute is never called
PayIdle ==
    /\ existing_payments = {}
    /\ accepted = <<>>
    /\ pay = NoPay
    /\ npay = 0

Init == AgentInit /\ StateIdle /\ PayIdle /\ ExtIdle

\* ------------------------------------------------------------- actions
\* run(): create the queue, create one task per client, await load_state(None)
LoadState ==
    /\ pc = "START"
    /\ pc' = "WAITING"
    /\ loads' = loads + 1
    /\ UNCHANGED <<shortTermMemory, queue, nput, request, response, proof, sendIdx,
                   raised, handed, inflight, calls, sent, ports, cancelled, shutdown>>
    /\ UNCHANGED <<agentClients, stateVars, payVars, extVars>>

\* a client's start() task puts its next Message
Enqueue(p) ==
    /\ ProducersCanRun
    /\ ports[p] = "running"
    /\ PutBy(Len(clients)) < MaxMsgs
    /\ nput' = [nput EXCEPT ![p] = @ + 1]
    /\ queue' = Append(queue, Msg(p, nput[p] + 1))
    /\ UNCHANGED <<shortTermMemory, pc, request, response, proof, sendIdx,
                   raised, handed, inflight, calls, sent, ports, cancelled, shutdown, loads>>
    /\ UNCHANGED <<agentClients, stateVars, payVars, extVars>>

\* a client's start() task raises and ends
ProducerFail(p) ==
    /\ LoopSuspended
    /\ ports[p] = "running"
    /\ ports' = [ports EXCEPT ![p] = "failed"]
    /\ pc' = OnProducerRaise(pc)
    /\ UNCHANGED <<shortTermMemory, queue, nput, request, response, proof, sendIdx,
                   raised, handed, inflight, calls, sent, cancelled, shutdown, loads>>
    /\ UNCHANGED <<agentClients, stateVars, payVars, extVars>>

\* request = await client_input_queue.get(); run_request(request) is entered
Dequeue ==
    /\ CanGet
    /\ queue # <<>>
    /\ LET got == QueueGet(queue) IN
        /\ request' = got.item
        /\ queue' = got.rest
        /\ handed' = Append(handed, got.item)
        /\ inflight' = inflight \cup {got.item}
    /\ pc' = "ENRICHING"
    /\ response' = NoResponse
    /\ proof' = NoProof
    /\ sendIdx' = 1
    /\ calls' = NoCalls
    /\ sent' = NoneSent
    /\ UNCHANGED <<shortTermMemory, nput, raised, ports, cancelled, shutdown, loads>>
    /\ UNCHANGED <<agentClients, stateVars, payVars, extVars>>

\* asyncio.run, once run() has ended: cancel() on every task that is not done,
\* then run the event loop until they are
CancelAllTasks(next) ==
    /\ cancelled' = IF RunEnded(next) THEN cancelled \cup {p \in Ports : ports[p] = "running"}
                    ELSE cancelled
    /\ ports' = IF RunEnded(next)
                THEN [p \in Ports |-> IF ports[p] = "running" THEN OnCancelled ELSE ports[p]]
                ELSE ports

\* the run_request frame of the current message is gone (returned or raised)
Leave(next) ==
    /\ pc' = next
    /\ inflight' = IF next \in {"WAITING", "CRASHED"} THEN inflight \ {handed[Len(handed)]}
                   ELSE inflight
    /\ CancelAllTasks(next)

\* request = await self._add_conversation_history(request)
AddConversationHistory ==
    /\ pc = "ENRICHING"
    /\ IF HistoryConfigured
       THEN /\ calls' = [calls EXCEPT !.history = @ + 1]
            /\ \/ /\ request' = AddHistory(request)
                  /\ pc' = "EXECUTING"
                  /\ UNCHANGED <<raised, inflight, ports, cancelled>>
               \/ /\ raised' = "history"
                  /\ Leave(OnRaise("history"))
                  /\ UNCHANGED request
       ELSE /\ pc' = "EXECUTING"
            /\ UNCHANGED <<request, calls, raised, inflight, ports, cancelled>>
    /\ UNCHANGED <<shortTermMemory, queue, nput, response, proof, sendIdx, handed, sent,
                   shutdown, loads>>
    /\ UNCHANGED <<agentClients, stateVars, payVars, extVars>>

\* response = await self.user_agent.run(request); if response: ...
Execute ==
    /\ pc = "EXECUTING"
    /\ calls' = [calls EXCEPT !.user = @ + 1]
    /\ \/ \E r \in {Reply(request), Absent} :
            /\ response' = r
            /\ Leave(AfterExecute(r))
            /\ UNCHANGED raised
       \/ /\ raised' = "user"
          /\ Leave(OnRaise("user"))
          /\ UNCHANGED response
    /\ UNCHANGED <<shortTermMemory, queue, nput, request, proof, sendIdx, handed, sent,
                   shutdown, loads>>
    /\ UNCHANGED <<agentClients, stateVars, payVars, extVars>>

\* proof = await self._generate_proof(request, response)
GenerateProof ==
    /\ pc = "PROVING"
    /\ calls' = [calls EXCEPT !.generate = @ + 1]
    /\ \/ /\ proof' = Proof(request, response)
          /\ pc' = "PUBLISHING"
          /\ UNCHANGED <<raised, inflight, ports, cancelled>>
       \/ /\ raised' = "generate"
          /\ Leave(OnRaise("generate"))
          /\ UNCHANGED proof
    /\ UNCHANGED <<shortTermMemory, queue, nput, request, response, sendIdx, handed, sent,
                   shutdown, loads>>
    /\ UNCHANGED <<agentClients, stateVars, payVars, extVars>>

\* await self._publish_proof(request, response, proof); the for loop is entered
PublishProof ==
    /\ pc = "PUBLISHING"
    /\ calls' = [calls EXCEPT !.publish = @ + 1]
    /\ \/ /\ Leave(AfterPublish(agentClients))
          /\ UNCHANGED raised
       \/ /\ raised' = "publish"
          /\ Leave(OnRaise("publish"))
    /\ UNCHANGED <<shortTermMemory, queue, nput, request, response, proof, sendIdx,
                   handed, sent, shutdown, loads>>
    /\ UNCHANGED <<agentClients, stateVars, payVars, extVars>>

\* one iteration of `for client in self.clients: await client.post_output(...)`
PostOutput ==
    /\ pc = "DELIVERING"
    /\ sent' = [sent EXCEPT ![agentClients[sendIdx]] =
                                Append(@, <<request, response, proof>>)]
    /\ \/ /\ IF sendIdx < Len(agentClients)
             THEN /\ sendIdx' = sendIdx + 1
                  /\ UNCHANGED <<pc, inflight, ports, cancelled>>
             ELSE /\ Leave(LoopHead)
                  /\ UNCHANGED sendIdx
          /\ UNCHANGED raised
       \/ /\ raised' = "send"
          /\ Leave(OnRaise("send"))
          /\ UNCHANGED sendIdx
    /\ UNCHANGED <<shortTermMemory, queue, nput, request, response, proof, handed, calls,
                   shutdown, loads>>
    /\ UNCHANGED <<agentClients, stateVars, payVars, extVars>>

\* the process is told to stop (SIGINT under asyncio.run): the task running
\* run() is cancelled where it is suspended, then asyncio.run cancels the rest
Shutdown ==
    /\ LoopSuspended
    /\ ~shutdown
    /\ shutdown' = TRUE
    /\ pc' = OnCancel(pc)
    /\ inflight' = IF RunEnded(OnCancel(pc)) THEN {} ELSE inflight
    /\ CancelAllTasks(OnCancel(pc))
    /\ UNCHANGED <<shortTermMemory, queue, nput, request, response, proof, sendIdx,
                   raised, handed, calls, sent, loads>>
    /\ UNCHANGED <<agentClients, stateVars, payVars, extVars>>

\* the steps of the dispatch loop's own coroutine
Dispatch ==
    \/ LoadState
    \/ Dequeue
    \/ AddConversationHistory
    \/ Execute
    \/ GenerateProof
    \/ PublishProof
    \/ PostOutput

Next ==
    \/ \E p \in Ports : Enqueue(p)
    \/ \E p \in Ports : ProducerFail(p)
    \/ Shutdown
    \/ Dispatch

Spec == Init /\ [][Next]_vars

\* the event loop keeps scheduling the dispatch coroutine, and every awaited
\* collaborator call eventually returns or raises
FairSpec == Spec /\ WF_vars(Dispatch)

\* ------------------------------------------------------------- no clients
\* GaladrielAgent constructed with clients=[]: run() would wait on a queue no
\* task puts into, so run_request is entered by a direct call
NoClientsInit ==
    /\ shortTermMemory \in BOOLEAN
    /\ queue = <<>>
    /\ nput = [p \in Ports |-> 0]
    /\ pc = "WAITING"
    /\ request = NoMsg
    /\ response = NoResponse
    /\ proof = NoProof
    /\ sendIdx = 1
    /\ raised = "none"
    /\ handed = <<>>
    /\ inflight = {}
    /\ calls = NoCalls
    /\ sent = NoneSent
    /\ ports = [p \in Ports |-> "stopped"]
    /\ cancelled = {}
    /\ shutdown = FALSE
    /\ loads = 0
    /\ agentClients = <<>>
    /\ StateIdle
    /\ PayIdle
    /\ ExtIdle

\* await agent.run_request(m), by a caller that holds the agent
RunRequest(m) ==
    /\ pc = "WAITING"
    /\ Len(handed) < MaxMsgs
    /\ request' = m
    /\ handed' = Append(handed, m)
    /\ inflight' = inflight \cup {m}
    /\ pc' = "ENRICHING"
    /\ response' = NoResponse
    /\ proof' = NoProof
    /\ sendIdx' = 1
    /\ calls' = NoCalls
    /\ sent' = NoneSent
    /\ UNCHANGED <<shortTermMemory, queue, nput, raised, ports, cancelled, shutdown, loads>>
    /\ UNCHANGED <<agentClients, stateVars, payVars, extVars>>

NoClientsNext ==
    \/ \E p \in Ports : RunRequest(Msg(p, Len(handed) + 1))
    \/ AddConversationHistory
    \/ Execute
    \/ GenerateProof
    \/ PublishProof

NoClientsSpec == NoClientsInit /\ [][NoClientsNext]_vars

\* ------------------------------------------------------------- state export / restore
\* a fresh agent, and a store that holds nothing or an earlier snapshot
StateInit ==
    /\ AgentInit
    /\ shortTermMemory
    /\ PayIdle
    /\ ExtIdle
    /\ agentState = 0
    /\ store \in Snapshots
    /\ loaded = <<>>
    /\ ckpt = NoOp
    /\ nops = 0

\* the agent's in-memory state changes as it works
StateChanges ==
    /\ \E v \in 0..MaxState :
        /\ v # agentState
        /\ agentState' = v
    /\ ckpt' = StateOp("change", "ok", FALSE, 0, NoSnapshot, agentState)
    /\ UNCHANGED <<store, loaded, nops, agentVars, payVars, extVars>>

\* await load_state(snap), as run() does with None
AwaitLoadState(snap) ==
    /\ nops < MaxOps
    /\ nops' = nops + 1
    /\ loaded' = Append(loaded, snap)
    /\ agentState' = LoadStateBody(agentState, snap)
    /\ ckpt' = StateOp("load", LoadStateEnds(snap), FALSE, 0, snap, agentState)
    /\ UNCHANGED <<store, agentVars, payVars, extVars>>

\* await load_state(await export_state())
RoundTrip ==
    /\ nops < MaxOps
    /\ nops' = nops + 1
    /\ LET snap == ExportState(agentState) IN
        /\ loaded' = Append(loaded, snap)
        /\ agentState' = LoadStateBody(agentState, snap)
        /\ ckpt' = StateOp("roundtrip", LoadStateEnds(snap), FALSE, 0, snap, agentState)
    /\ UNCHANGED <<store, agentVars, payVars, extVars>>

\* await upload_state()
UploadState ==
    /\ nops < MaxOps
    /\ nops' = nops + 1
    /\ LET state == UploadArgument(agentState) IN
        \/ /\ store' = StoreUpload(store, state)
           /\ ckpt' = StateOp("upload", "ok", FALSE, 1, state, agentState)
        \/ /\ ckpt' = StateOp("upload", OnStoreRaise, TRUE, 1, state, agentState)
           /\ UNCHANGED store
    /\ UNCHANGED <<agentState, loaded, agentVars, payVars, extVars>>

\* await restore_state()
RestoreState ==
    /\ nops < MaxOps
    /\ nops' = nops + 1
    /\ \/ LET state == StoreDownload(store) IN
            /\ ckpt' = StateOp("restore", "ok", FALSE, 1, state, agentState)
            /\ IF RestoreAwaitsLoad
               THEN /\ loaded' = Append(loaded, state)
                    /\ agentState' = LoadStateBody(agentState, state)
               ELSE UNCHANGED <<loaded, agentState>>
       \/ /\ ckpt' = StateOp("restore", OnStoreRaise, TRUE, 1, NoSnapshot, agentState)
          /\ UNCHANGED <<loaded, agentState>>
    /\ UNCHANGED <<store, agentVars, payVars, extVars>>

StateNext ==
    \/ StateChanges
    \/ \E snap \in Snapshots : AwaitLoadState(snap)
    \/ RoundTrip
    \/ UploadState
    \/ RestoreState

StateSpec == StateInit /\ [][StateNext]_vars

\* ------------------------------------------------------------- payment validation
\* the agent holds an empty set of used signatures
PayInit ==
    /\ AgentInit
    /\ shortTermMemory
    /\ StateIdle
    /\ ExtIdle
    /\ existing_payments = {}
    /\ accepted = <<>>
    /\ pay = NoPay
    /\ npay = 0

\* a caller enters execute(pricing, existing_payments, request) with
\* request.content = m and pricing.cost = cost
CallExecute(m, cost) ==
    /\ pay.outcome # "pending"
    /\ npay < MaxPays
    /\ npay' = npay + 1
    /\ pay' = Pay(m, cost, NoTx, "none", <<>>, "pending", existing_payments)
    /\ UNCHANGED <<existing_payments, accepted, agentVars, stateVars, extVars>>

\* what the caller is left with when the call has ended: the locals of the
\* frame, request among them, are gone
Ended(tx, parsed, outcome) ==
    Pay(<<>>, pay.cost, tx, parsed.kind, parsed.signature, outcome, pay.before)

\* the body of execute, from its first line to its return or raise
execute ==
    /\ pay.outcome = "pending"
    /\ LET parsed == ExtractTransactionSignature(pay.message)
           sig == parsed.signature
       IN  IF parsed.kind = "ValueError"
           THEN /\ pay' = Ended(NoTx, parsed, "ValueError")
                /\ UNCHANGED <<existing_payments, accepted>>
           ELSE IF parsed.kind = "none"
           THEN /\ pay' = Ended(NoTx, parsed, "PaymentValidationError")
                /\ UNCHANGED <<existing_payments, accepted>>
           ELSE IF AlreadyUsed(sig, existing_payments)
           THEN /\ pay' = Ended(NoTx, parsed, "PaymentValidationError")
                /\ UNCHANGED <<existing_payments, accepted>>
           ELSE IF ~IsSignature(sig)
           THEN /\ pay' = Ended(NoTx, parsed, "ValueError")
                /\ UNCHANGED <<existing_payments, accepted>>
           ELSE \E tx \in Txs :
                IF Underpaid(GetSolAmountTransferred(tx), pay.cost)
                THEN /\ existing_payments' = RecordedOnReject(existing_payments, sig)
                     /\ pay' = Ended(tx, parsed, "PaymentValidationError")
                     /\ UNCHANGED accepted
                ELSE /\ existing_payments' = existing_payments \cup {sig}
                     /\ accepted' = Append(accepted, sig)
                     /\ pay' = Ended(tx, parsed, "accepted")
    /\ UNCHANGED <<npay, agentVars, stateVars, extVars>>

PayNext ==
    \/ \E m \in Messages, cost \in Costs : CallExecute(m, cost)
    \/ execute

PaySpec == PayInit /\ [][PayNext]_vars

\* ------------------------------------------------------------- Discord client
\* the agent is constructed and not used
CoreIdle == AgentInit /\ shortTermMemory /\ StateIdle /\ PayIdle

coreVars == <<agentVars, stateVars, payVars>>

DiscordInit == CoreIdle /\ ExtIdle

\* a member of the guild posts a message
MemberPosts(a) ==
    /\ nposted < MaxPosts
    /\ nposted' = nposted + 1
    /\ gateway' = Append(gateway, Post(a, nposted + 1, 0))
    /\ UNCHANGED <<message_queue, seen, coreVars, deployVars, swapVars, walletVars, nameVars>>

\* on_message(message), for the next message of the guild
on_message ==
    /\ gateway # <<>>
    /\ gateway' = Tail(gateway)
    /\ LET message == Head(gateway) IN
        IF IsOwnMessage(message.author)
        THEN /\ seen' = Append(seen, Seen(message, FALSE))
             /\ UNCHANGED message_queue
        ELSE /\ seen' = Append(seen, Seen(message, TRUE))
             /\ message_queue' = Append(message_queue, ToDict(message))
    /\ UNCHANGED <<nposted, coreVars, deployVars, swapVars, walletVars, nameVars>>

\* the dispatch loop takes the oldest item and post_output answers it in the
\* channel: channel.send posts a message of the bot in the guild
post_output ==
    /\ message_queue # <<>>
    /\ message_queue' = Tail(message_queue)
    /\ gateway' = Append(gateway, Post(SelfUser, 0, Head(message_queue).seq))
    /\ UNCHANGED <<nposted, seen, coreVars, deployVars, swapVars, walletVars, nameVars>>

DiscordNext ==
    \/ \E a \in Members : MemberPosts(a)
    \/ on_message
    \/ post_output

DiscordSpec == DiscordInit /\ [][DiscordNext]_vars

\* ------------------------------------------------------------- CLI: deploy
DeployInit == CoreIdle /\ ExtIdle

\* the run goes on to the call `next`, or ends by raising when `next` is "ended"
Step(name, next) ==
    deploy' = IF next = "ended"
              THEN Run("ended", Append(deploy.log, name), name, "ClickException", "")
              ELSE Run(next, Append(deploy.log, name), deploy.failedAt, deploy.outcome, "")

\* `galadriel agent deploy` is entered
DeployCommand ==
    /\ deploy.at = "ended"
    /\ ndeploys < MaxDeploys
    /\ ndeploys' = ndeploys + 1
    /\ deploy' = Run("config", <<>>, "none", "running", "")
    /\ UNCHANGED <<world, coreVars, discordVars, swapVars, walletVars, nameVars>>

\* _assert_config_files: raises when a file or a credential is missing
AssertConfigFiles ==
    /\ deploy.at = "config"
    /\ \E ok \in BOOLEAN : Step("config", IF ok THEN "build" ELSE "ended")
    /\ UNCHANGED <<ndeploys, world, coreVars, discordVars, swapVars, walletVars, nameVars>>

\* _build_image
BuildImage ==
    /\ deploy.at = "build"
    /\ \E ok \in BOOLEAN :
         /\ Step("build", AfterBuild(ok))
         /\ world' = IF ok THEN [world EXCEPT !.built = @ + 1] ELSE world
    /\ UNCHANGED <<ndeploys, coreVars, discordVars, swapVars, walletVars, nameVars>>

\* _publish_image: docker login, raising when its return code is not 0
DockerLogin ==
    /\ deploy.at = "login"
    /\ \E ok \in BOOLEAN : Step("login", IF ok THEN "token" ELSE "ended")
    /\ UNCHANGED <<ndeploys, world, coreVars, discordVars, swapVars, walletVars, nameVars>>

\* _publish_image: the token request; 200 leads to the repository request,
\* another status to the push, no answer raises
HubToken ==
    /\ deploy.at = "token"
    /\ \E next \in {"repo", "push", "ended"} : Step("token", next)
    /\ UNCHANGED <<ndeploys, world, coreVars, discordVars, swapVars, walletVars, nameVars>>

\* _publish_image: the repository request; its status is not looked at
HubRepository ==
    /\ deploy.at = "repo"
    /\ \E ok \in BOOLEAN : Step("repo", IF ok THEN "push" ELSE "ended")
    /\ UNCHANGED <<ndeploys, world, coreVars, discordVars, swapVars, walletVars, nameVars>>

\* _publish_image: docker push, check=True
DockerPush ==
    /\ deploy.at = "push"
    /\ \E ok \in BOOLEAN :
         /\ Step("push", IF ok THEN "deploy" ELSE "ended")
         /\ world' = IF ok THEN [world EXCEPT !.pushed = @ + 1] ELSE world
    /\ UNCHANGED <<ndeploys, coreVars, discordVars, swapVars, walletVars, nameVars>>

\* _galadriel_deploy up to the request: raises without .agents.env or API key
GaladrielDeploy ==
    /\ deploy.at = "deploy"
    /\ \E ok \in BOOLEAN : Step("deploy", IF ok THEN "post" ELSE "ended")
    /\ UNCHANGED <<ndeploys, world, coreVars, discordVars, swapVars, walletVars, nameVars>>

\* _galadriel_deploy: the request and its answer, then `if not agent_id`
GaladrielPost ==
    /\ deploy.at = "post"
    /\ \E answer \in Answers :
         /\ IF answer = "200 id"
            THEN deploy' = Run("ended", Append(deploy.log, "post"), "none", "ok", "id")
            ELSE Step("post", "ended")
         /\ world' = IF answer \in {"200 id", "200 empty", "200 no key"}
                     THEN [world EXCEPT !.agents = @ + 1] ELSE world
    /\ UNCHANGED <<ndeploys, coreVars, discordVars, swapVars, walletVars, nameVars>>

DeployNext ==
    \/ DeployCommand
    \/ AssertConfigFiles
    \/ BuildImage
    \/ DockerLogin
    \/ HubToken
    \/ HubRepository
    \/ DockerPush
    \/ GaladrielDeploy
    \/ GaladrielPost

DeploySpec == DeployInit /\ [][DeployNext]_vars

\* ------------------------------------------------------------- Jupiter swap tool
SwapInit == CoreIdle /\ ExtIdle

\* the agent calls forward(user_address, token1, token2, amount)
CallForward(user_address, token1, token2, amount) ==
    /\ swapCall.phase # "forward"
    /\ swapCall' = Forward("forward", user_address, token1, token2, amount, NoSwapArgs)
    /\ UNCHANGED <<coreVars, discordVars, deployVars, walletVars, nameVars>>

\* asyncio.run(swap(wallet, user_address, token1, float(token2), int(amount)))
forward ==
    /\ swapCall.phase = "forward"
    /\ swapCall' = IF IsNumber(swapCall.token2)
                   THEN [swapCall EXCEPT !.phase = "swap",
                                         !.swap = SwapArgs(swapCall.user_address,
                                                           swapCall.token1,
                                                           Float(swapCall.token2),
                                                           swapCall.amount)]
                   ELSE [swapCall EXCEPT !.phase = "ValueError"]
    /\ UNCHANGED <<coreVars, discordVars, deployVars, walletVars, nameVars>>

SwapNext ==
    \/ \E u \in Users, t1 \in Mints, t2 \in Mints, a \in 1..MaxAmount : CallForward(u, t1, t2, a)
    \/ forward

SwapSpec == SwapInit /\ [][SwapNext]_vars

\* ------------------------------------------------------------- CLI: wallet
\* a project directory in which some of the key files are there already (key 1)
WalletInit ==
    /\ CoreIdle
    /\ DiscordIdle /\ DeployIdle /\ SwapIdle /\ NameIdle
    /\ files \in [Paths -> {0, 1}]
    /\ agentsEnv = ""
    /\ walletCall = Wallet(0, "", "none", files, "")

\* _create_solana_wallet(path); the key of the n-th call is n + 1
create_solana_wallet(path) ==
    /\ walletCall.n < MaxWallets
    /\ LET n == walletCall.n + 1 IN
        IF Exists(files, path)
        THEN /\ walletCall' = Wallet(n, path, "ClickException", files, agentsEnv)
             /\ UNCHANGED <<files, agentsEnv>>
        ELSE /\ agentsEnv' = path
             /\ IF HasDirname(path)
                THEN /\ files' = [files EXCEPT ![path] = n + 1]
                     /\ walletCall' = Wallet(n, path, "ok", files, agentsEnv)
                ELSE /\ walletCall' = Wallet(n, path, "FileNotFoundError", files, agentsEnv)
                     /\ UNCHANGED files
    /\ UNCHANGED <<coreVars, discordVars, deployVars, swapVars, nameVars>>

WalletNext == \E path \in Paths : create_solana_wallet(path)

WalletSpec == WalletInit /\ [][WalletNext]_vars

\* ------------------------------------------------------------- CLI: init
\* `galadriel agent init` is entered: agent_name = ""
NameInit ==
    /\ CoreIdle
    /\ DiscordIdle /\ DeployIdle /\ SwapIdle /\ WalletIdle
    /\ naming = Naming("prompt", 0, <<>>, <<>>, <<>>)

\* one turn of `while not agent_name`, and _create_agent_template after it
Prompt(agent_name_input) ==
    /\ naming.at = "prompt"
    /\ naming.n < MaxPrompts
    /\ LET agent_name == SanitizeAgentName(agent_name_input) IN
        naming' = IF agent_name # <<>>
                  THEN Naming("created", naming.n + 1, agent_name_input, agent_name, agent_name)
                  ELSE Naming("prompt", naming.n + 1, agent_name_input, agent_name, <<>>)
    /\ UNCHANGED <<coreVars, discordVars, deployVars, swapVars, walletVars>>

NameNext == \E agent_name_input \in Inputs : Prompt(agent_name_input)

NameSpec == NameInit /\ [][NameNext]_vars

\* ------------------------------------------------------------- properties
IsPrefix(s, t) == Len(s) <= Len(t) /\ \A i \in 1..Len(s) : s[i] = t[i]

\* the subsequence of s that client p produced
FromPort(s, p) == SelectSeq(s, LAMBDA m : m.port = p)

\* what client p has put so far, in the order it put it
Produced(p) == [i \in 1..nput[p] |-> Msg(p, i)]

\* how often m occurs in s
Count(s, m) == Cardinality({i \in 1..Len(s) : s[i] = m})

InPipeline == pc \in {"ENRICHING", "EXECUTING", "PROVING", "PUBLISHING", "DELIVERING"}

\* the triple run_request holds for the current message
Triple == <<request, response, proof>>

\* C1: when a single client is the only one that has enqueued, the messages
\* handed to run_request are, in order, the first messages that client put.
C1_SinglePortOrder ==
    \A p \in Ports :
        (\A q \in Ports \ {p} : nput[q] = 0) => IsPrefix(handed, Produced(p))

\* C1 witness: one client alone has put two messages and both were handed over.
C1_Witness ==
    /\ \A q \in Ports \ {1} : nput[q] = 0
    /\ nput[1] >= 2
    /\ Len(handed) >= 2

\* C2: with several clients enqueuing in any interleaving, the messages of each
\* client reach run_request in the order that client put them.
C2_PerPortOrder ==
    \A p \in Ports : IsPrefix(FromPort(handed, p), Produced(p))

\* C2 witness: the messages of two clients were handed over interleaved
\* (client a, client b, client a, client b).
C2_Witness ==
    /\ Len(handed) >= 4
    /\ handed[1].port # handed[2].port
    /\ handed[3].port = handed[1].port
    /\ handed[4].port = handed[2].port

\* C3 (the claim as stated): no message is handed to run_request twice, and
\* every message that is in the queue is eventually taken out of it, unless
\* shutdown is signalled.
C3_ExactlyOnceEventually ==
    /\ [](\A p \in Ports : \A n \in 1..MaxMsgs : Count(handed, Msg(p, n)) <= 1)
    /\ \A p \in Ports : \A n \in 1..MaxMsgs :
          (Count(queue, Msg(p, n)) > 0) ~> (Count(handed, Msg(p, n)) > 0 \/ shutdown)

\* C4: at most one message is in flight: while a pipeline stage is pending the
\* only live run_request frame is that of the message dequeued last.
C4_SingleInFlight ==
    /\ Cardinality(inflight) <= 1
    /\ InPipeline => inflight = {handed[Len(handed)]}
    /\ ~InPipeline => inflight = {}

\* C4 witness: user_agent.run is pending for one message while two further
\* messages, of different clients, wait in the queue.
C4_Witness ==
    /\ pc = "EXECUTING"
    /\ Cardinality(inflight) = 1
    /\ Len(queue) >= 2
    /\ queue[1].port # queue[2].port

\* C5: when user_agent.run returned an absent result, no proof was generated
\* or published, no client's post_output was called, and the loop is WAITING
\* (until the process is told to stop).
C5_AbsentNoProofNoSend ==
    (calls.user > 0 /\ response = Absent) =>
        /\ pc = "WAITING" \/ shutdown
        /\ calls.generate = 0
        /\ calls.publish = 0
        /\ proof = NoProof
        /\ \A p \in Ports : sent[p] = <<>>

\* C5 witness: user_agent.run has returned an absent result.
C5_Witness == calls.user = 1 /\ response = Absent /\ raised = "none"

\* C6 (the claim as stated): when one client's post_output raised, every other
\* client had post_output called, once, with the same triple.
C6_SendFailureIsolated ==
    raised = "send" =>
        \A q \in Ports \ {clients[sendIdx]} : sent[q] = <<Triple>>

\* C7 (the claim as stated): the step in which user_agent.run raises takes the
\* loop back to WAITING.
C7_ExecuteFailureKeepsLoop ==
    [][(raised = "none" /\ raised' = "user") => pc' = "WAITING"]_vars

\* C8 (the claim as stated): the step in which the history collaborator raises
\* leaves the message without response, user_agent.run not called, and takes
\* the loop back to WAITING.
C8_HistoryFailureKeepsLoop ==
    [][(raised = "none" /\ raised' = "history") =>
            (response' = NoResponse /\ calls'.user = 0 /\ pc' = "WAITING")]_vars

\* C9 (the claim as stated): a post_output that raised has not stopped the
\* dispatch loop.
C9_SendFailureKeepsLoop == raised = "send" => pc # "CRASHED"

\* C10: when user_agent.run raised, no proof was generated or published and no
\* client's post_output was called for that message.
C10_ThrowNoProofNoSend ==
    raised = "user" =>
        /\ calls.generate = 0
        /\ calls.publish = 0
        /\ proof = NoProof
        /\ \A p \in Ports : sent[p] = <<>>

\* C10 witness: user_agent.run was called for a message and raised.
C10_Witness == raised = "user" /\ calls.user = 1 /\ Len(handed) >= 1

\* the message dequeued last
Current == handed[Len(handed)]

\* C11: the stages of one message run in the order enrich, execute, generate,
\* publish, deliver: a later stage has been entered only when every earlier
\* one was called and has returned.
C11_StageOrder ==
    /\ calls.user > 0 => pc # "ENRICHING" /\ raised # "history"
                         /\ (shortTermMemory => calls.history > 0 /\ request.enriched)
    /\ calls.generate > 0 => calls.user > 0 /\ response.kind = "reply"
    /\ calls.publish > 0 => calls.generate > 0 /\ proof # NoProof /\ raised # "generate"
    /\ \A p \in Ports :
          sent[p] # <<>> => calls.publish > 0 /\ raised # "publish" /\ pc # "PUBLISHING"

\* C11 witness: a message went through every stage, the last post_output included.
C11_Witness ==
    /\ shortTermMemory
    /\ calls = [history |-> 1, user |-> 1, generate |-> 1, publish |-> 1]
    /\ \A p \in Ports : Len(sent[p]) = 1
    /\ raised = "none"

\* C12: the step that dequeues the next message is taken only when, for a
\* current message with a response, post_output was called on every client
\* and all of them have returned.
C12_DeliveriesBeforeNextDequeue ==
    [][(handed' # handed /\ response.kind = "reply") =>
            (pc = "WAITING" /\ raised = "none" /\ \A p \in Ports : sent[p] = <<Triple>>)]_vars

\* C12 witness: all deliveries of a message are done and the next message is
\* in the queue, about to be dequeued.
C12_Witness ==
    /\ pc = "WAITING"
    /\ response.kind = "reply"
    /\ \A p \in Ports : sent[p] = <<Triple>>
    /\ queue # <<>>

\* C13: user_agent.run gets the message the history collaborator returned, the
\* proof generator gets (that request, the response), and every client gets
\* (that request, the response, that proof).
C13_DataFlow ==
    /\ response.kind = "reply" =>
          /\ response.reply_to = [Current EXCEPT !.enriched = shortTermMemory]
          /\ response.reply_to = request
    /\ proof # NoProof => proof.req = request /\ proof.resp = response
    /\ \A p \in Ports : \A i \in 1..Len(sent[p]) :
          /\ sent[p][i][1] = [Current EXCEPT !.enriched = shortTermMemory]
          /\ sent[p][i][2] = [kind |-> "reply", reply_to |-> sent[p][i][1]]
          /\ sent[p][i][3] = [req |-> sent[p][i][1], resp |-> sent[p][i][2]]

\* C13 witness: with a history collaborator configured, the last client was
\* given the triple of an enriched request.
C13_Witness ==
    /\ shortTermMemory
    /\ Len(sent[clients[Len(clients)]]) = 1
    /\ sent[clients[Len(clients)]][1][1].enriched

\* C14: without short-term memory the history collaborator is not called, and
\* user_agent.run and the delivered triple carry exactly the dequeued message.
C14_NoMemoryPassThrough ==
    (~shortTermMemory /\ Len(handed) > 0) =>
        /\ calls.history = 0
        /\ request = Current
        /\ response.kind = "reply" => response.reply_to = Current
        /\ \A p \in Ports : \A i \in 1..Len(sent[p]) : sent[p][i][1] = Current

\* C14 witness: without short-term memory a triple was delivered.
C14_Witness ==
    /\ ~shortTermMemory
    /\ calls.user = 1
    /\ sent[clients[1]] = <<Triple>>

\* C15: for the current message every collaborator and every client's
\* post_output is called at most once, also after one of them raised.
C15_NoRetry ==
    /\ calls.history <= 1
    /\ calls.user <= 1
    /\ calls.generate <= 1
    /\ calls.publish <= 1
    /\ \A p \in Ports : Len(sent[p]) <= 1

\* C15 witness: a post_output raised, having been called once.
C15_Witness ==
    /\ raised = "send"
    /\ Len(sent[clients[sendIdx]]) = 1
    /\ calls.publish = 1

\* C16: a client's start() task that raises is isolated: the step changes
\* neither the dispatch loop, the queue nor any other client's task, and the
\* loop only ever ends by an exception of the pipeline or by a shutdown.
C16_ProducerFailureIsolated ==
    /\ [](pc = "CRASHED" => raised # "none")
    /\ [](pc = "STOPPED" => shutdown)
    /\ [][\A p \in Ports :
            (ports[p] = "running" /\ ports'[p] = "failed") =>
                /\ pc' = pc
                /\ queue' = queue
                /\ handed' = handed
                /\ \A q \in Ports \ {p} : ports'[q] = ports[q]]_vars

\* C16 witness: the first client's task has failed without putting anything,
\* and the loop has consumed every message of the others and waits for more.
C16_Witness ==
    /\ ports[clients[1]] = "failed"
    /\ nput[clients[1]] = 0
    /\ Len(handed) >= 3
    /\ pc = "WAITING"
    /\ \A q \in Ports \ {clients[1]} : ports[q] = "running"

\* C17: a client task that had cancel() called on it has ended, and puts no
\* further message into the queue.
C17_CancelledPortStops ==
    [][\A p \in cancelled' :
            /\ ports'[p] = "stopped"
            /\ p \in cancelled => nput'[p] = nput[p]]_vars

\* C17 witness: a client was cancelled between two ticks: it had put a
\* message and was due to put more.
C17_Witness ==
    \E p \in cancelled :
        /\ ports[p] = "stopped"
        /\ nput[p] >= 1
        /\ PutBy(Len(clients)) < MaxMsgs

\* C18 (the claim as stated): when the loop is STOPPED, the message dequeued
\* last has been through its whole pipeline: user_agent.run returned, and a
\* response was delivered to every client.
C18_InFlightCompletesBeforeStop ==
    (pc = "STOPPED" /\ Len(handed) > 0) =>
        /\ calls.user = 1
        /\ \/ response = Absent
           \/ response.kind = "reply" /\ \A p \in Ports : sent[p] = <<Triple>>

\* C19: once shutdown is signalled every client task has been told to stop and
\* none is running, the loop is STOPPED, and no further message is dequeued.
C19_ShutdownStopsLoop ==
    [][shutdown' =>
            /\ pc' = "STOPPED"
            /\ \A p \in Ports : ports'[p] # "running"
            /\ {p \in Ports : ports'[p] = "stopped"} \subseteq cancelled'
            /\ shutdown => (handed' = handed /\ queue' = queue)]_vars

\* C19 witness: the loop is STOPPED after a shutdown with a message left in
\* the queue and a client task cancelled.
C19_Witness ==
    /\ shutdown
    /\ pc = "STOPPED"
    /\ queue # <<>>
    /\ cancelled # {}

\* C20: load_state is awaited once, before the first message is dequeued (and
\* before any producer has run), and never again.
C20_LoadOnceBeforeConsuming ==
    /\ loads <= 1
    /\ pc = "START" <=> loads = 0
    /\ (Len(handed) > 0 \/ queue # <<>>) => loads = 1

\* C20 witness: after one load_state a message was delivered in full and a
\* second one dequeued.
C20_Witness ==
    /\ loads = 1
    /\ Len(handed) >= 2
    /\ pc = "ENRICHING"

\* ------------------------------------------------------------- state export / restore
\* a state operation has ended and its record is the last one
Did(op) == ckpt.op = op

\* C21: restoring when nothing is stored, or loading with no state to load,
\* is not an error: the operation ends normally and the in-memory state is
\* what it was, the default one on a fresh agent.
C21_MissingSnapshotIsNoError ==
    ((Did("restore") \/ Did("load")) /\ ~ckpt.storeFailed /\ ckpt.snap.kind = "none")
        => (ckpt.outcome = "ok" /\ agentState = ckpt.before)

\* C21 witness: a fresh agent restored from a store that holds nothing
C21_Witness ==
    /\ Did("restore")
    /\ ~ckpt.storeFailed
    /\ store = NoSnapshot
    /\ ckpt.snap = NoSnapshot
    /\ ckpt.outcome = "ok"
    /\ ckpt.before = 0
    /\ agentState = 0

C23_StoreFailureSurfaces ==
    ckpt.storeFailed =>
        /\ ckpt.outcome = "raised"
        /\ ckpt.storeCalls = 1
        /\ agentState = ckpt.before

\* C23 witness: a download failed under restore_state on a non-default state
C23_Witness ==
    /\ Did("restore")
    /\ ckpt.storeFailed
    /\ ckpt.outcome = "raised"
    /\ ckpt.before # 0
    /\ agentState = ckpt.before

\* C24: when restore_state has ended normally after the store returned a
\* snapshot S, the body of load_state has been run with S.
C24_RestoreRunsLoad ==
    (Did("restore") /\ ckpt.outcome = "ok" /\ ckpt.snap.kind = "state")
        => (loaded # <<>> /\ loaded[Len(loaded)] = ckpt.snap)

\* C25: upload_state hands the store the value export_state returns for the
\* state of that moment, the finished result and not a pending coroutine,
\* and that value is what the store then holds.
C25_UploadHandsExportedState ==
    (Did("upload") /\ ~ckpt.storeFailed)
        => (ckpt.snap = ExportState(ckpt.before) /\ store = ckpt.snap)

\* ------------------------------------------------------------- no clients
\* C26: with no client, a message that gets a response has its proof
\* generated and published, post_output is invoked on nothing, and
\* run_request returns without an error.
C26_NoClientsStillProves ==
    Len(agentClients) = 0 =>
        /\ pc # "DELIVERING"
        /\ \A p \in Ports : sent[p] = <<>>
        /\ (response.kind = "reply" /\ calls.publish = 1 /\ raised = "none")
               => (pc = "WAITING" /\ calls.generate = 1 /\ proof = Proof(request, response))
        /\ (response.kind = "reply" /\ pc = "WAITING")
               => (calls.generate = 1 /\ calls.publish = 1 /\ raised = "none")

\* C26 witness: run_request has returned for a message that got a response
C26_Witness ==
    /\ Len(agentClients) = 0
    /\ pc = "WAITING"
    /\ response = Reply(request)
    /\ calls.generate = 1
    /\ calls.publish = 1
    /\ raised = "none"
    /\ inflight = {}
    /\ \A p \in Ports : sent[p] = <<>>

\* ------------------------------------------------------------- payment validation
\* a call of execute has ended
Returned == pay.outcome \notin {"none", "pending"}

\* the call got as far as asking the chain for the transaction
LookedUp == Returned /\ pay.parsed = "found" /\ IsSignature(pay.signature)
            /\ pay.signature \notin pay.before

\* C27: a request whose signature is already in existing_payments is rejected
\* with PaymentValidationError, no signature is accepted twice, and a call
\* that returns has added its signature to existing_payments.
C27_ReplayRejected ==
    /\ (Returned /\ pay.parsed = "found" /\ pay.signature \in pay.before)
           => (pay.outcome = "PaymentValidationError" /\ existing_payments = pay.before)
    /\ \A i, j \in 1..Len(accepted) : accepted[i] = accepted[j] => i = j
    /\ \A i \in 1..Len(accepted) : accepted[i] \in existing_payments
    /\ pay.outcome = "accepted" =>
           (pay.signature \in existing_payments /\ pay.signature \notin pay.before)

\* C27 witness: a signature that an earlier call was accepted with is
\* presented again and rejected
C27_Witness ==
    /\ pay.outcome = "PaymentValidationError"
    /\ pay.parsed = "found"
    /\ pay.signature \in pay.before
    /\ \E i \in 1..Len(accepted) : accepted[i] = pay.signature
    /\ Len(accepted) = 1

\* C28: when execute raises PaymentValidationError, existing_payments is what
\* it was at the entry of the call.
C28_RejectKeepsSet ==
    pay.outcome = "PaymentValidationError" => existing_payments = pay.before

\* C28 witness: an existing transaction that pays too little is rejected,
\* with an earlier signature in the set
C28_Witness ==
    /\ pay.outcome = "PaymentValidationError"
    /\ LookedUp
    /\ pay.tx.found /\ pay.tx.hasWallet /\ ~pay.tx.err
    /\ pay.tx.delta < pay.cost * LamportsPerSol
    /\ pay.before # {}
    /\ existing_payments = pay.before

\* C29: whatever pricing.cost is, a request whose transaction is not found,
\* has failed, or does not involve the pricing wallet is rejected with
\* PaymentValidationError and its signature is not recorded.
C29_UnverifiableNeverAccepted ==
    (LookedUp /\ (~pay.tx.found \/ ~pay.tx.hasWallet \/ pay.tx.err))
        => (pay.outcome = "PaymentValidationError"
            /\ pay.signature \notin existing_payments)

\* C30: _extract_transaction_signature returns a task and signature or None
\* and never raises, so a message it cannot parse ends execute with
\* PaymentValidationError.
C30_ExtractNeverRaises ==
    Returned =>
        /\ pay.parsed \in {"found", "none"}
        /\ pay.parsed = "none" => pay.outcome = "PaymentValidationError"

\* ------------------------------------------------------------- proof before delivery
\* C31: when proof generation or proof publication raised for a message, no
\* client's post_output is called for it: a triple is delivered only after
\* its proof was generated and then published, both without raising.
C31_ProofBeforeDelivery ==
    /\ raised \in {"generate", "publish"} => \A p \in Ports : sent[p] = <<>>
    /\ \A p \in Ports :
          sent[p] # <<>> =>
              /\ calls.generate = 1
              /\ calls.publish = 1
              /\ raised \notin {"generate", "publish"}
              /\ proof = Proof(request, response)
              /\ sent[p][1][3] = proof

\* C31 witness: the proof of a message was generated and its publication raised
C31_Witness ==
    /\ raised = "publish"
    /\ calls.generate = 1
    /\ calls.publish = 1
    /\ proof = Proof(request, response)
    /\ \A p \in Ports : sent[p] = <<>>

\* ------------------------------------------------------------- Discord client
\* C32: on_message never puts a message whose author is the bot's own user:
\* what it puts, and so what is in the queue, is authored by someone else,
\* and a message of the bot is returned on without a put.
C32_OwnMessagesNotEnqueued ==
    /\ \A i \in 1..Len(message_queue) : message_queue[i].author # SelfUser
    /\ \A i \in 1..Len(seen) : seen[i].put <=> seen[i].post.author # SelfUser

\* C32 witness: a member's message was put, answered by the bot, and
\* on_message was called with the bot's answer
C32_Witness ==
    /\ \E i \in 1..Len(seen) : seen[i].put
    /\ \E i \in 1..Len(seen) : seen[i].post.author = SelfUser /\ ~seen[i].put
    /\ message_queue = <<>>
    /\ gateway = <<>>

\* ------------------------------------------------------------- CLI: deploy
\* C33: deploy makes its calls in the order build, publish (login first),
\* deploy request, each only after the one before returned; a call that fails,
\* or an answer without an agent id, ends the command with a ClickException
\* and is the last call made.
C33_DeployStepsInOrder ==
    /\ IsPrefix(deploy.log, Steps) \/ IsPrefix(deploy.log, StepsNoRepo)
    /\ deploy.failedAt # "none" =>
           /\ deploy.at = "ended"
           /\ deploy.outcome = "ClickException"
           /\ deploy.log[Len(deploy.log)] = deploy.failedAt
    /\ deploy.outcome = "ClickException" => deploy.failedAt # "none"
    /\ deploy.outcome = "ok" =>
           /\ deploy.at = "ended"
           /\ deploy.agent_id # ""
           /\ deploy.log \in {Steps, StepsNoRepo}
    /\ world.agents <= world.pushed
    /\ world.pushed <= world.built

\* C33 witness: the build and the login succeeded, the push failed, and the
\* command ended there without the deploy request
C33_Witness ==
    /\ deploy.failedAt = "push"
    /\ deploy.outcome = "ClickException"
    /\ deploy.at = "ended"
    /\ deploy.log = <<"config", "build", "login", "token", "repo", "push">>

\* ------------------------------------------------------------- Jupiter swap tool
\* C34: forward(user_address, token1, token2, amount) calls swap with token1
\* as the input mint, token2 as the output mint and amount as the input
\* amount.
C34_ForwardSwapsToken1ForToken2 ==
    swapCall.phase \notin {"none", "forward"} =>
        /\ swapCall.phase = "swap"
        /\ swapCall.swap.input_mint = swapCall.token1
        /\ swapCall.swap.output_mint = swapCall.token2
        /\ swapCall.swap.input_amount = swapCall.amount

\* ------------------------------------------------------------- CLI: wallet
\* C35: _create_solana_wallet never overwrites a key file that exists: when
\* the path exists the call raises and leaves the key files and .agents.env
\* as they were.
C35_ExistingKeyNotOverwritten ==
    /\ \A p \in Paths : walletCall.filesBefore[p] # 0 => files[p] = walletCall.filesBefore[p]
    /\ (walletCall.outcome # "none" /\ walletCall.filesBefore[walletCall.path] # 0) =>
           /\ walletCall.outcome = "ClickException"
           /\ files = walletCall.filesBefore
           /\ agentsEnv = walletCall.envBefore

\* C35 witness: a wallet was created at one path, then creation was asked
\* for at a path whose key file exists, and refused
C35_Witness ==
    /\ walletCall.outcome = "ClickException"
    /\ files[walletCall.path] # 0
    /\ files = walletCall.filesBefore
    /\ agentsEnv # ""
    /\ agentsEnv # walletCall.path
    /\ agentsEnv = walletCall.envBefore

\* ------------------------------------------------------------- CLI: init
\* C36: the name _sanitize_agent_name returns has only alphanumeric
\* characters and underscores, neither starts nor ends with an underscore,
\* and is returned unchanged when sanitized again; init creates a template
\* only for a name that is not empty.
C36_SanitizedName ==
    LET name == naming.name IN
    /\ \A i \in 1..Len(name) : name[i] \in Alnum \cup {"_"}
    /\ name # <<>> => (name[1] # "_" /\ name[Len(name)] # "_")
    /\ SanitizeAgentName(name) = name
    /\ naming.at = "created" <=> (naming.n > 0 /\ name # <<>>)
    /\ naming.created # <<>> => (naming.created = name /\ naming.at = "created")

\* C36 witness: an input of underscores and other characters around a name
\* with an underscore inside was sanitized, after an input that left nothing
C36_Witness ==
    /\ naming.n = 2
    /\ naming.at = "created"
    /\ naming.input = <<"-", "_", "a", "_">>
    /\ naming.name = <<"a">>
    /\ naming.created = <<"a">>

====
